---- MODULE Spec2Model ----
(***************************************************************************)
(* Three independent components of the scheduling application:             *)
(*   - the accessible-users resolver (retrieveScopedAccessibleUsers.ts),   *)
(*   - the team-group-mapping authorization guard                          *)
(*     (userCanCreateTeamGroupMapping),                                    *)
(*   - the booking list view-model builder (BookingsContent).              *)
(* Each component has its own specification; the variables of the other    *)
(* components are held constant in it.                                     *)
(***************************************************************************)
EXTENDS Integers, Sequences, FiniteSets, TLC

VARIABLES
    membership,      \* the Membership table: a set of rows
    isOrganization,  \* Team.isOrganization, per team id
    resolver,        \* the resolver call in progress: arguments, queries, result
    team,            \* the Team table: a set of rows (id, parentId)
    guard,           \* the last guard call: arguments, external calls, outcome
    query,           \* query.data.bookings, the page of bookings on display
    status,          \* the tab: props.status
    now,             \* the instant of the render, in the user's time zone
    view,            \* what the render computed: groupedBookings and finalData
                     \* (and the shownBookings object the run filled)
    selectedBooking,            \* useState, line 136: the booking of the details sheet
    selectedBookingForActions,  \* useState, line 137
    dialogs,         \* the useState flags of lines 140-148, by name
    noShowMutation,  \* markNoShow: the requests in flight and the last result
    setLocationMutation,  \* editLocation: the requests in flight and the last result
    saveLocationEnded,  \* how the last finished call of saveLocation ended
    toast,           \* the last notification showToast put up
    invalidated      \* utils.viewer.bookings.invalidate() awaits its refetch

resolverVars == <<membership, isOrganization, resolver>>
guardVars == <<team, guard>>
selectionVars == <<selectedBooking, selectedBookingForActions, dialogs>>
mutationVars ==
    <<noShowMutation, setLocationMutation, saveLocationEnded, toast, invalidated>>
dataVars == <<query, status, now, view>>
bookingsVars == <<dataVars, selectionVars, mutationVars>>
vars ==
    <<membership, isOrganization, resolver, team, guard, query, status, now, view,
      selectedBooking, selectedBookingForActions, dialogs, noShowMutation,
      setLocationMutation, saveLocationEnded, toast, invalidated>>

(***************************************************************************)
(* Optional values (null / undefined) are the empty tuple, a present value *)
(* v is <<v>>.                                                             *)
(***************************************************************************)
None == <<>>
Some(v) == <<v>>

Range(s) == {s[i] : i \in DOMAIN s}

\* All the orders in which a store may hand back a set of rows (a query
\* without orderBy promises none).
Orderings(S) ==
    {s \in [1..Cardinality(S) -> S] : \A i, j \in 1..Cardinality(S) : s[i] = s[j] => i = j}

(***************************************************************************)
(* Accessible-users resolver                                               *)
(***************************************************************************)
MaxMemberships == 3

UserIds == {1, 2, 3}
\* Team 10 is an organization; team 20 is a second organization or a plain
\* team (see InitResolver).
TeamIds == {10, 20}
MembershipRole == {"OWNER", "ADMIN", "MEMBER"}

\* Candidate lists handed to getAccessibleUsers: the queries read a list
\* only through its length and through `in`, so one order of each pair does.
MemberUserIdLists ==
    {<<>>} \cup {<<u>> : u \in UserIds} \cup {p \in UserIds \X UserIds : p[1] < p[2]}

Row(p, a) == [userId |-> p[1], teamId |-> p[2], role |-> a[1], accepted |-> a[2]]

\* A membership table holds at most MaxMemberships rows, and a user has at
\* most one membership per team (see ResolverStarts).

\* prisma.membership.findFirst: no row, or any one of the rows that match.
findFirst(rows) == IF rows = {} THEN {None} ELSE {Some(m) : m \in rows}

\* prisma.membership.findMany: the rows that match, in an order of the store's.
findMany(rows) == Orderings(rows)

\* Variant: the admin lookup without `team: { isOrganization: true }`.
AdminOrgMembershipWhereAnyTeam(m, adminUserId) ==
    /\ m.userId = adminUserId
    /\ m.role \in {"OWNER", "ADMIN"}

\* The where clause of the admin lookup of lines 14-20 (no `accepted`).
AdminOrgMembershipWhere(m, adminUserId) ==
    /\ m.userId = adminUserId
    /\ m.role \in {"OWNER", "ADMIN"}
    /\ isOrganization[m.teamId]

\* The where clause of the admin lookup of lines 137-144 (`accepted: true`).
AdminOrgMembershipWhereAccepted(m, adminUserId) ==
    /\ m.userId = adminUserId
    /\ m.accepted
    /\ m.role \in {"OWNER", "ADMIN"}
    /\ isOrganization[m.teamId]

\* Variant: the candidates' query without `accepted: true`.
MembershipsWhereAnyAccepted(m, orgId, memberUserIds) ==
    /\ m.teamId = orgId
    /\ m.userId \in Range(memberUserIds)

\* The where clause of lines 33-37: accepted members of the organization
\* among the candidates.
MembershipsWhere(m, orgId, memberUserIds) ==
    /\ m.teamId = orgId
    /\ m.userId \in Range(memberUserIds)
    /\ m.accepted

\* Variant: the members' query without `teamId: organizationId`.
AllMembershipsWhereAnyTeam(m, organizationId) == m.accepted

\* The where clause of lines 65-68: every accepted member of the organization.
AllMembershipsWhere(m, organizationId) ==
    /\ m.teamId = organizationId
    /\ m.accepted

\* memberships.map((m) => m.userId)
MapUserId(rows) == [i \in DOMAIN rows |-> rows[i].userId]

Outcome(orgId, queries, result) == [orgId |-> orgId, queries |-> queries, result |-> result]

\* Variant: lines 26-43 without the `memberUserIds.length === 0` return.
FilterCandidatesAlwaysQuery(adminOrgMembership, memberUserIds) ==
    IF adminOrgMembership = None
    THEN {Outcome(None, <<"findFirst">>, <<>>)}
    ELSE LET orgId == adminOrgMembership[1].teamId
         IN  {Outcome(Some(orgId), <<"findFirst", "findMany">>, MapUserId(rows)) :
              rows \in findMany({m \in membership : m.teamId = orgId
                                                     /\ m.userId \in Range(memberUserIds)
                                                     /\ m.accepted})}

\* Lines 26-43, after the admin lookup returned adminOrgMembership.
FilterCandidates(adminOrgMembership, memberUserIds) ==
    IF adminOrgMembership = None
    THEN {Outcome(None, <<"findFirst">>, <<>>)}
    ELSE LET orgId == adminOrgMembership[1].teamId
         IN  IF Len(memberUserIds) = 0
             THEN {Outcome(Some(orgId), <<"findFirst">>, <<>>)}
             ELSE {Outcome(Some(orgId), <<"findFirst", "findMany">>, MapUserId(rows)) :
                   rows \in findMany({m \in membership : MembershipsWhere(m, orgId, memberUserIds)})}

\* Lines 60-74, after the admin lookup returned adminOrgMembership.
AllMembers(adminOrgMembership) ==
    IF adminOrgMembership = None
    THEN {Outcome(None, <<"findFirst">>, <<>>)}
    ELSE LET organizationId == adminOrgMembership[1].teamId
         IN  {Outcome(Some(organizationId), <<"findFirst", "findMany">>, MapUserId(rows)) :
              rows \in findMany({m \in membership : AllMembershipsWhere(m, organizationId)})}

Called(op, adminId, memberUserIds, o) ==
    [op |-> op, adminId |-> adminId, memberUserIds |-> memberUserIds,
     orgId |-> o.orgId, queries |-> o.queries, result |-> o.result]

NotCalled ==
    [op |-> "none", adminId |-> 0, memberUserIds |-> <<>>,
     orgId |-> None, queries |-> <<>>, result |-> <<>>]

\* getAccessibleUsers, lines 9-44.
getAccessibleUsers ==
    /\ resolver = NotCalled
    /\ \E memberUserIds \in MemberUserIdLists, adminUserId \in UserIds :
         \E adminOrgMembership \in findFirst({m \in membership : AdminOrgMembershipWhere(m, adminUserId)}) :
           \E o \in FilterCandidates(adminOrgMembership, memberUserIds) :
             resolver' = Called("getAccessibleUsers", adminUserId, memberUserIds, o)
    /\ UNCHANGED <<membership, isOrganization, guardVars, bookingsVars>>

\* retrieveOrgScopedAccessibleUsers, lines 46-75.
retrieveOrgScopedAccessibleUsers ==
    /\ resolver = NotCalled
    /\ \E adminId \in UserIds :
         \E adminOrgMembership \in findFirst({m \in membership : AdminOrgMembershipWhere(m, adminId)}) :
           \E o \in AllMembers(adminOrgMembership) :
             resolver' = Called("retrieveOrgScopedAccessibleUsers", adminId, <<>>, o)
    /\ UNCHANGED <<membership, isOrganization, guardVars, bookingsVars>>

\* getAccessibleUsers as the file declares it a second time, lines 132-168.
getAccessibleUsersAccepted ==
    /\ resolver = NotCalled
    /\ \E memberUserIds \in MemberUserIdLists, adminUserId \in UserIds :
         \E adminOrgMembership \in findFirst({m \in membership : AdminOrgMembershipWhereAccepted(m, adminUserId)}) :
           \E o \in FilterCandidates(adminOrgMembership, memberUserIds) :
             resolver' = Called("getAccessibleUsersAccepted", adminUserId, memberUserIds, o)
    /\ UNCHANGED <<membership, isOrganization, guardVars, bookingsVars>>

\* retrieveOrgScopedAccessibleUsers as the file declares it a second time,
\* lines 170-200.
retrieveOrgScopedAccessibleUsersAccepted ==
    /\ resolver = NotCalled
    /\ \E adminId \in UserIds :
         \E adminOrgMembership \in findFirst({m \in membership : AdminOrgMembershipWhereAccepted(m, adminId)}) :
           \E o \in AllMembers(adminOrgMembership) :
             resolver' = Called("retrieveOrgScopedAccessibleUsersAccepted", adminId, <<>>, o)
    /\ UNCHANGED <<membership, isOrganization, guardVars, bookingsVars>>

\* The promise resolves: the caller takes the list and the call's frame is gone.
resolverReturn ==
    /\ resolver # NotCalled
    /\ resolver' = NotCalled
    /\ UNCHANGED <<membership, isOrganization, guardVars, bookingsVars>>

ResolverStarts ==
    /\ \E P \in SUBSET (UserIds \X TeamIds) :
         /\ Cardinality(P) <= MaxMemberships
         /\ \E f \in [P -> MembershipRole \X BOOLEAN] :
              membership = {Row(p, f[p]) : p \in P}
    /\ isOrganization \in {f \in [TeamIds -> BOOLEAN] : f[10]}
    /\ resolver = NotCalled

ResolverUnused ==
    /\ membership = {}
    /\ isOrganization = [t \in TeamIds |-> FALSE]
    /\ resolver = NotCalled

NextResolver ==
    \/ getAccessibleUsers
    \/ retrieveOrgScopedAccessibleUsers
    \/ getAccessibleUsersAccepted
    \/ retrieveOrgScopedAccessibleUsersAccepted
    \/ resolverReturn

(***************************************************************************)
(* Team-group-mapping authorization guard                                  *)
(***************************************************************************)
SessionUserIds == {1, 2}
OrganizationIds == {1, 2}
SubTeamIds == {3, 4}

\* The Team tables: the two organizations, and each sub-team missing, without
\* a parent, or under one of the organizations.
TeamTables ==
    {{[id |-> o, parentId |-> None] : o \in OrganizationIds}
        \cup {[id |-> t, parentId |-> f[t]] : t \in P} :
     P \in SUBSET SubTeamIds,
     f \in [SubTeamIds -> {None} \cup {Some(o) : o \in OrganizationIds}]}

\* organizationId: number | null, the session user's organization.
OrganizationIdArgs == {None} \cup {Some(o) : o \in OrganizationIds}

\* teamId?: number, as the request carries it: left out, or any number.
TeamIdArgs == {None} \cup {Some(t) : t \in {0} \cup OrganizationIds \cup SubTeamIds}

\* What canAccessOrganization (external) answers: access, or one of its
\* refusals.
AccessReplies ==
    {[access |-> TRUE, message |-> "success"]}
        \cup [access : {FALSE}, message : {"not_an_admin", "no_sso_access"}]

\* JavaScript's !x for x: number | null | undefined.
Falsy(x) == x = None \/ x = Some(0)

HttpError(statusCode, message) ==
    [kind |-> "throw", statusCode |-> statusCode, message |-> message, organizationId |-> None]

Returned(organizationId) ==
    [kind |-> "return", statusCode |-> 0, message |-> "", organizationId |-> Some(organizationId)]

GuardRun(calls, reply, outcome) == [calls |-> calls, reply |-> reply, outcome |-> outcome]

\* prisma.team.findFirst({ where: { id, parentId } }), lines 28-36.
teamFindFirst(id, parentId) ==
    findFirst({r \in team : r.id = id /\ r.parentId = Some(parentId)})

\* Variant: the body without the `!organizationId` check of lines 12-17.
userCanCreateTeamGroupMappingUnchecked(organizationId, teamId, reply) ==
    IF ~reply.access
    THEN {GuardRun(<<"canAccessOrganization">>, Some(reply), HttpError(400, reply.message))}
    ELSE IF ~Falsy(teamId) /\ organizationId # None
    THEN {GuardRun(<<"canAccessOrganization", "team.findFirst">>, Some(reply),
                   IF orgTeam = None
                   THEN HttpError(400, "Could not find team")
                   ELSE Returned(organizationId[1])) :
          orgTeam \in teamFindFirst(teamId[1], organizationId[1])}
    ELSE {GuardRun(<<"canAccessOrganization">>, Some(reply),
                   Returned(IF organizationId = None THEN 0 ELSE organizationId[1]))}

\* Variant: the body with the team lookup of lines 27-44 ahead of the access
\* check of lines 19-25.
userCanCreateTeamGroupMappingTeamFirst(organizationId, teamId, reply) ==
    IF Falsy(organizationId)
    THEN {GuardRun(<<>>, None, HttpError(400, "Could not find organization id"))}
    ELSE IF ~Falsy(teamId) /\ teamFindFirst(teamId[1], organizationId[1]) = {None}
    THEN {GuardRun(<<"team.findFirst">>, None, HttpError(400, "Could not find team"))}
    ELSE LET calls == IF Falsy(teamId)
                      THEN <<"canAccessOrganization">>
                      ELSE <<"team.findFirst", "canAccessOrganization">>
         IN  IF ~reply.access
             THEN {GuardRun(calls, Some(reply), HttpError(400, reply.message))}
             ELSE {GuardRun(calls, Some(reply), Returned(organizationId[1]))}

\* The body of userCanCreateTeamGroupMapping, lines 12-46, with `reply` what
\* canAccessOrganization answers if it is asked.
userCanCreateTeamGroupMappingBody(organizationId, teamId, reply) ==
    IF Falsy(organizationId)
    THEN {GuardRun(<<>>, None, HttpError(400, "Could not find organization id"))}
    ELSE IF ~reply.access
    THEN {GuardRun(<<"canAccessOrganization">>, Some(reply), HttpError(400, reply.message))}
    ELSE IF ~Falsy(teamId)
    THEN {GuardRun(<<"canAccessOrganization", "team.findFirst">>, Some(reply),
                   IF orgTeam = None
                   THEN HttpError(400, "Could not find team")
                   ELSE Returned(organizationId[1])) :
          orgTeam \in teamFindFirst(teamId[1], organizationId[1])}
    ELSE {GuardRun(<<"canAccessOrganization">>, Some(reply), Returned(organizationId[1]))}

GuardNotCalled ==
    [user |-> 0, organizationId |-> None, teamId |-> None,
     calls |-> <<>>, reply |-> None, outcome |-> [kind |-> "none"]]

\* userCanCreateTeamGroupMapping, lines 7-47.
userCanCreateTeamGroupMapping ==
    /\ \E user \in SessionUserIds, organizationId \in OrganizationIdArgs,
          teamId \in TeamIdArgs, reply \in AccessReplies :
         \E r \in userCanCreateTeamGroupMappingBody(organizationId, teamId, reply) :
           guard' = [user |-> user, organizationId |-> organizationId, teamId |-> teamId,
                     calls |-> r.calls, reply |-> r.reply, outcome |-> r.outcome]
    /\ UNCHANGED <<team, resolverVars, bookingsVars>>

GuardStarts ==
    /\ team \in TeamTables
    /\ guard = GuardNotCalled

GuardUnused ==
    /\ team = {}
    /\ guard = GuardNotCalled

NextGuard == userCanCreateTeamGroupMapping

(***************************************************************************)
(* Booking list view-model builder                                         *)
(*                                                                         *)
(* Instants are wall-clock instants of the user's time zone, counted from  *)
(* 2025-07-01T00:00:00.000.  A day has two instants, 00:00:00.000 and      *)
(* 23:59:59.999, and a month two days, so a month is four instants: its    *)
(* startOf("month"), two instants inside it, and its endOf("month").       *)
(***************************************************************************)
MaxBookings == 3
\* The runs of the memos a behaviour counts, the first render included.
MaxRuns == 2

MonthIndex(t) == t \div 4
YearOf(t) == 2025 + ((6 + MonthIndex(t)) \div 12)
MonthOf(t) == ((6 + MonthIndex(t)) % 12) + 1
DateOf(t) == ((t % 4) \div 2) + 1

\* dayjs startOf("month") and endOf("month")
startOfMonth(t) == 4 * MonthIndex(t)
endOfMonth(t) == (4 * MonthIndex(t)) + 3

\* Strings are tuples of UTF-16 code units: "0".."9" are 48..57, "-" is 45.
Digit(n, place) == 48 + ((n \div place) % 10)

\* format("YYYY-MM-DD"): the year on four digits, month and day on two.
FormatDate(t) ==
    LET y == YearOf(t)
        m == MonthOf(t)
        d == DateOf(t)
    IN  <<Digit(y, 1000), Digit(y, 100), Digit(y, 10), Digit(y, 1), 45,
          Digit(m, 10), Digit(m, 1), 45, Digit(d, 10), Digit(d, 1)>>

\* format("YYYY-MM")
FormatMonth(t) ==
    LET y == YearOf(t)
        m == MonthOf(t)
    IN  <<Digit(y, 1000), Digit(y, 100), Digit(y, 10), Digit(y, 1), 45,
          Digit(m, 10), Digit(m, 1)>>

\* The number the decimal digits str[from..to] spell.
RECURSIVE ParseInt(_, _, _)
ParseInt(str, from, to) ==
    IF to < from THEN 0
    ELSE (10 * ParseInt(str, from, to - 1)) + (str[to] - 48)

\* The order of Array.prototype.sort() without a comparator: by code units,
\* compared from index i on.
RECURSIVE StringLessFrom(_, _, _)
StringLessFrom(a, b, i) ==
    IF i > Len(b) THEN FALSE
    ELSE IF i > Len(a) THEN TRUE
    ELSE IF a[i] # b[i] THEN a[i] < b[i]
    ELSE StringLessFrom(a, b, i + 1)

StringLess(a, b) == StringLessFrom(a, b, 1)

Statuses == {"upcoming", "recurring", "past", "cancelled", "unconfirmed"}

\* The render happens on 2025-08-01 (an October two months ahead) or on
\* 2025-12-02, the last day of its month (the months ahead are of 2026).
NowChoices == {5, 22}

\* Start times around the month of the render at t: the last instant of the
\* month before, the first and the last instant of the month (one of them is
\* today), an instant of the month's other day, and one instant in each of
\* the next two months.
StartTimes(t) ==
    {startOfMonth(t) - 1, startOfMonth(t), endOfMonth(t),
     startOfMonth(t) + (IF DateOf(t) = 1 THEN 2 ELSE 1),
     endOfMonth(t) + 2, endOfMonth(t) + 7}

RecurringEventIds == {None, Some("series_a")}

\* A page of bookings; booking.id is unique.
BookingList(f) ==
    [i \in DOMAIN f |-> [id |-> i, startTime |-> f[i][1], recurringEventId |-> f[i][2]]]

\* filterBookings, lines 717-732: whether the booking is kept, and
\* shownBookings after the call.
filterBookings(booking, shownBookings) ==
    IF status \in {"recurring", "unconfirmed", "cancelled"}
    THEN IF booking.recurringEventId = None
         THEN [keep |-> TRUE, shownBookings |-> shownBookings]
         ELSE LET id == booking.recurringEventId[1]
              IN  IF id \in DOMAIN shownBookings /\ Len(shownBookings[id]) > 0
                  THEN [keep |-> FALSE,
                        shownBookings |-> [shownBookings EXCEPT ![id] = Append(@, booking)]]
                  ELSE [keep |-> TRUE,
                        shownBookings |-> (id :> <<booking>>) @@ shownBookings]
    ELSE [keep |-> TRUE, shownBookings |-> shownBookings]

\* shownBookings once filterBookings has seen bookings[i..].
RECURSIVE ShownFrom(_, _, _)
ShownFrom(bookings, i, shownBookings) ==
    IF i > Len(bookings) THEN shownBookings
    ELSE ShownFrom(bookings, i + 1, filterBookings(bookings[i], shownBookings).shownBookings)

\* query.data.bookings.filter(filterBookings), line 738, from index i on.
RECURSIVE FilterFrom(_, _, _)
FilterFrom(bookings, i, shownBookings) ==
    IF i > Len(bookings) THEN <<>>
    ELSE LET r == filterBookings(bookings[i], shownBookings)
         IN  (IF r.keep THEN <<bookings[i]>> ELSE <<>>)
                 \o FilterFrom(bookings, i + 1, r.shownBookings)

\* rowData, lines 743-750 (recurringInfo is display data, left out).
RowData(booking) ==
    [type |-> "data", booking |-> booking,
     isToday |-> FormatDate(booking.startTime) = FormatDate(now)]

\* Variant: the row put at the front of its bucket (unshift for push).
PushToBucketFront(monthBuckets, monthKey, rowData) ==
    IF \E j \in DOMAIN monthBuckets : monthBuckets[j].key = monthKey
    THEN [j \in DOMAIN monthBuckets |->
            IF monthBuckets[j].key = monthKey
            THEN [monthBuckets[j] EXCEPT !.rows = <<rowData>> \o @]
            ELSE monthBuckets[j]]
    ELSE Append(monthBuckets, [key |-> monthKey, rows |-> <<rowData>>])

\* monthBuckets[monthKey].push(rowData), lines 757-760; the object keeps its
\* keys in the order they were first set.
PushToBucket(monthBuckets, monthKey, rowData) ==
    IF \E j \in DOMAIN monthBuckets : monthBuckets[j].key = monthKey
    THEN [j \in DOMAIN monthBuckets |->
            IF monthBuckets[j].key = monthKey
            THEN [monthBuckets[j] EXCEPT !.rows = Append(@, rowData)]
            ELSE monthBuckets[j]]
    ELSE Append(monthBuckets, [key |-> monthKey, rows |-> <<rowData>>])

\* The forEach callback, lines 738-762: the buckets after one more booking.
PlaceBooking(booking, acc) ==
    LET bookingDate == booking.startTime
        today == FormatDate(now)
        currentMonthStart == startOfMonth(now)
        currentMonthEnd == endOfMonth(now)
        rowData == RowData(booking)
    IN  IF FormatDate(bookingDate) = today
        THEN [acc EXCEPT !.today = Append(@, rowData)]
        ELSE IF bookingDate > currentMonthStart /\ bookingDate < currentMonthEnd
        THEN [acc EXCEPT !.currentMonth = Append(@, rowData)]
        ELSE IF bookingDate > currentMonthEnd
        THEN [acc EXCEPT !.monthBuckets = PushToBucket(@, FormatMonth(bookingDate), rowData)]
        ELSE acc

RECURSIVE PlaceFrom(_, _, _)
PlaceFrom(kept, i, acc) ==
    IF i > Len(kept) THEN acc ELSE PlaceFrom(kept, i + 1, PlaceBooking(kept[i], acc))

NoBookings == [today |-> <<>>, currentMonth |-> <<>>, monthBuckets |-> <<>>]

\* Variant: shownBookings declared outside the memo, so that a run starts
\* from what the run before left in it.
keptShownBookings == view.shownBookings

\* const shownBookings = {}, line 716: every run starts from an empty object.
newShownBookings == <<>>

\* Lines 706-765 on the bookings `data` of the query (none while it loads).
GroupBookings(data) ==
    IF data = None THEN NoBookings
    ELSE PlaceFrom(FilterFrom(data[1], 1, newShownBookings), 1, NoBookings)

\* groupedBookings, lines 706-765.
groupedBookings == GroupBookings(query)

\* shownBookings as the run of lines 706-765 leaves it.
ShownBookingsAfter(data) ==
    IF data = None THEN newShownBookings
    ELSE ShownFrom(data[1], 1, newShownBookings)

\* Object.values(monthBuckets).flat(): the buckets' rows, in key order `keys`.
RECURSIVE RowsOf(_, _)
RowsOf(monthBuckets, i) ==
    IF i > Len(monthBuckets) THEN <<>>
    ELSE monthBuckets[i].rows \o RowsOf(monthBuckets, i + 1)

\* Variant: flatData with the rows of today ahead of the others.
flatDataWithToday(grouped) ==
    grouped.today \o grouped.currentMonth \o RowsOf(grouped.monthBuckets, 1)

\* flatData, lines 767-769.
flatData(grouped) == grouped.currentMonth \o RowsOf(grouped.monthBuckets, 1)

\* keys[i..] sorted into ascending string order (the keys of an object are
\* distinct).
RECURSIVE Sort(_, _)
Sort(keys, i) ==
    IF i > Len(keys) THEN <<>>
    ELSE LET rest == Sort(keys, i + 1)
             before == SelectSeq(rest, LAMBDA k : StringLess(k, keys[i]))
             after == SelectSeq(rest, LAMBDA k : ~StringLess(k, keys[i]))
         IN  before \o <<keys[i]>> \o after

\* Variant: Object.keys(groupedBookings.monthBuckets) without .sort().
unsortedMonthKeys(monthBuckets) == [j \in DOMAIN monthBuckets |-> monthBuckets[j].key]

\* Object.keys(groupedBookings.monthBuckets).sort(), line 793.
sortedMonthKeys(monthBuckets) ==
    Sort([j \in DOMAIN monthBuckets |-> monthBuckets[j].key], 1)

Separator(label) == [type |-> "separator", label |-> label]

\* t("today"), t("this_month")
TodayLabel == [text |-> "today", year |-> 0, month |-> 0]
ThisMonthLabel == [text |-> "this_month", year |-> 0, month |-> 0]

\* dayjs(monthKey, "YYYY-MM").format("MMMM YYYY"), line 797.
MonthLabel(monthKey) ==
    [text |-> "MMMM YYYY",
     year |-> ParseInt(monthKey, 1, 4),
     month |-> ParseInt(monthKey, 6, 7)]

\* The forEach of lines 794-800, from the i-th sorted key on.
RECURSIVE MonthSections(_, _, _)
MonthSections(monthBuckets, keys, i) ==
    IF i > Len(keys) THEN <<>>
    ELSE LET bookings == (CHOOSE b \in Range(monthBuckets) : b.key = keys[i]).rows
         IN  (IF Len(bookings) > 0
              THEN <<Separator(MonthLabel(keys[i]))>> \o bookings
              ELSE <<>>)
                 \o MonthSections(monthBuckets, keys, i + 1)

\* Variant: the Today and This Month separators pushed whether or not their
\* buckets hold rows.
finalDataUnguarded(grouped) ==
    IF status # "upcoming" THEN flatData(grouped)
    ELSE <<Separator(TodayLabel)>> \o grouped.today
         \o <<Separator(ThisMonthLabel)>> \o grouped.currentMonth
         \o MonthSections(grouped.monthBuckets, sortedMonthKeys(grouped.monthBuckets), 1)

\* finalData, lines 775-803.
finalData(grouped) ==
    IF status # "upcoming" THEN flatData(grouped)
    ELSE (IF Len(grouped.today) > 0
          THEN <<Separator(TodayLabel)>> \o grouped.today
          ELSE <<>>)
         \o (IF Len(grouped.currentMonth) > 0
             THEN <<Separator(ThisMonthLabel)>> \o grouped.currentMonth
             ELSE <<>>)
         \o MonthSections(grouped.monthBuckets, sortedMonthKeys(grouped.monthBuckets), 1)

NotRendered ==
    [rendered |-> FALSE, runs |-> 0, groupedBookings |-> NoBookings,
     finalData |-> <<>>, shownBookings |-> <<>>]

\* What the memos of lines 706-803 compute in one run on the bookings `data`.
MemosOn(data) ==
    LET grouped == GroupBookings(data)
    IN  [groupedBookings |-> grouped,
         finalData |-> finalData(grouped),
         shownBookings |-> ShownBookingsAfter(data)]

Memos == MemosOn(query)

\* The view after the n-th run of the memos on a page.
Rendered(n, memos) ==
    [rendered |-> TRUE,
     runs |-> n,
     groupedBookings |-> memos.groupedBookings,
     finalData |-> memos.finalData,
     shownBookings |-> memos.shownBookings]

\* The first render of BookingsContent.
render ==
    /\ ~view.rendered
    /\ view' = Rendered(1, Memos)
    /\ UNCHANGED <<query, status, now, selectionVars, mutationVars, resolverVars, guardVars>>

\* The memos run again on the same page, status and instant (query.data is a
\* new object of the same content).
rerender ==
    /\ view.rendered
    /\ view.runs < MaxRuns
    /\ view' = Rendered(view.runs + 1, Memos)
    /\ UNCHANGED <<query, status, now, selectionVars, mutationVars, resolverVars, guardVars>>

\* The flags of lines 140-148.
DialogFlags ==
    {"isOpenRescheduleDialog", "isOpenReassignDialog", "isOpenSetLocationDialog",
     "isOpenAddGuestsDialog", "isOpenReportDialog", "rerouteDialogIsOpen",
     "chargeCardDialogIsOpen", "viewRecordingsDialogIsOpen",
     "meetingSessionDetailsDialogIsOpen"}

\* A mutation of useMutation before any call.
Idle == [inFlight |-> <<>>, last |-> None]

\* The useState values of lines 136-148 at mount, no mutation called, no
\* notification shown.
ContentStarts ==
    /\ selectedBooking = None
    /\ selectedBookingForActions = None
    /\ dialogs = [d \in DialogFlags |-> FALSE]
    /\ noShowMutation = Idle
    /\ setLocationMutation = Idle
    /\ saveLocationEnded = "none"
    /\ toast = None
    /\ invalidated = FALSE

BookingsStarts ==
    /\ ContentStarts
    /\ now \in NowChoices
    /\ status \in Statuses
    /\ \/ query = None
       \/ \E n \in 0..MaxBookings :
            \E f \in [1..n -> StartTimes(now) \X RecurringEventIds] :
              query = Some(BookingList(f))
    /\ view = NotRendered

BookingsUnused ==
    /\ ContentStarts
    /\ now = 0
    /\ status = "upcoming"
    /\ query = None
    /\ view = NotRendered

NextBookings == render \/ rerender

(***************************************************************************)
(* BookingsContent: the row actions, the dialogs and the details sheet     *)
(***************************************************************************)
\* The requests of one mutation a behaviour keeps in flight at a time.
MaxInFlight == 1
\* The bookings of a page where the navigation is followed.
MaxRows == 3

Attendee(email, noShow) == [email |-> email, noShow |-> noShow]

\* What the row actions and the dialogs read of a booking besides its id and
\* start time (eventType.team stands for booking.eventType?.team).
Details(attendees, paid, payment, location, routed, eventTypeTeam) ==
    [attendees |-> attendees, paid |-> paid, payment |-> payment, location |-> location,
     routedFromRoutingFormReponse |-> routed, eventTypeTeam |-> eventTypeTeam]

\* query.data.bookings with these fields; booking.id (and uid) is unique in
\* a page.
DetailedBookingList(f) ==
    [i \in DOMAIN f |->
       [id |-> i, startTime |-> f[i][1], recurringEventId |-> None,
        attendees |-> f[i][2].attendees, paid |-> f[i][2].paid,
        payment |-> f[i][2].payment, location |-> f[i][2].location,
        routedFromRoutingFormReponse |-> f[i][2].routedFromRoutingFormReponse,
        eventTypeTeam |-> f[i][2].eventTypeTeam]]

\* The pages of at most n bookings with start times of S and details of D.
Pages(n, S, D) ==
    UNION {{DetailedBookingList(f) : f \in [1..k -> S \X D]} : k \in 0..n}

\* The bookings of the data rows on display.
RowBookings ==
    {view.finalData[i].booking :
       i \in {j \in DOMAIN view.finalData : view.finalData[j].type = "data"}}

\* Strings that trim() leaves empty.
Blank == {"", " "}

\* Lines 937-940 (and 253-256): no location, Cal Video, or a blank string.
IsCalVideoLocation(location) ==
    \/ location = None
    \/ location[1] = "integrations:daily"
    \/ location[1] \in Blank

\* The dialogs lines 890-972 render for a selected booking, each with the
\* flag it is opened by, the value of that flag and the booking it is given.
DialogTree(selected) ==
    LET Dialog(flag) ==
            [flag |-> flag, isOpenDialog |-> dialogs[flag],
             booking |-> IF selected = None THEN None ELSE Some(selected[1].id)]
    IN  {Dialog("isOpenRescheduleDialog")}
        \cup (IF dialogs["isOpenReassignDialog"] /\ selected # None
              THEN {Dialog("isOpenReassignDialog")} ELSE {})
        \cup (IF selected = None THEN {}
              ELSE {Dialog("isOpenSetLocationDialog"), Dialog("isOpenAddGuestsDialog"),
                    Dialog("isOpenReportDialog")}
                   \cup (IF selected[1].paid /\ selected[1].payment # <<>>
                         THEN {Dialog("chargeCardDialogIsOpen")} ELSE {})
                   \cup (IF IsCalVideoLocation(selected[1].location)
                         THEN {Dialog("viewRecordingsDialogIsOpen")}
                              \cup (IF dialogs["meetingSessionDetailsDialogIsOpen"]
                                    THEN {Dialog("meetingSessionDetailsDialogIsOpen")}
                                    ELSE {})
                         ELSE {})
                   \cup (IF /\ selected[1].routedFromRoutingFormReponse # None
                            /\ selected[1].eventTypeTeam # None
                         THEN {Dialog("rerouteDialogIsOpen")} ELSE {}))

\* Variant: ReportBookingDialog given the booking of the details sheet.
RenderedDialogsOfBothSelections ==
    {d \in DialogTree(selectedBookingForActions) : d.flag # "isOpenReportDialog"}
        \cup {d \in DialogTree(selectedBooking) : d.flag = "isOpenReportDialog"}

\* The dialogs of lines 890-972: all read selectedBookingForActions.
RenderedDialogs == DialogTree(selectedBookingForActions)

\* The onClick of a pending action, lines 496-500.
pendingActionOnClick(booking) ==
    /\ view.rendered
    /\ selectedBookingForActions' = Some(booking)
    /\ UNCHANGED <<dataVars, selectedBooking, dialogs, mutationVars, resolverVars, guardVars>>

\* The ids getEditEventActions may hand back ("reschedule" is a link: no
\* branch of lines 509-519 is for it).
EditEventActionIds ==
    {"reschedule", "reschedule_request", "reroute", "change_location", "add_members",
     "reassign"}

\* The flag each branch of lines 509-519 sets.
EditEventDialog ==
    [reschedule_request |-> "isOpenRescheduleDialog",
     reroute |-> "rerouteDialogIsOpen",
     change_location |-> "isOpenSetLocationDialog",
     add_members |-> "isOpenAddGuestsDialog",
     reassign |-> "isOpenReassignDialog"]

\* The onClick of an edit action, lines 506-520.
editEventActionOnClick(booking, action) ==
    /\ view.rendered
    /\ selectedBookingForActions' = Some(booking)
    /\ dialogs' = IF action \in DOMAIN EditEventDialog
                  THEN [dialogs EXCEPT ![EditEventDialog[action]] = TRUE]
                  ELSE dialogs
    /\ UNCHANGED <<dataVars, selectedBooking, mutationVars, resolverVars, guardVars>>

AfterEventActionIds == {"view_recordings", "meeting_session_details", "charge_card", "no_show"}

\* The flag each of the branches of lines 529-534 sets.
AfterEventDialog ==
    [view_recordings |-> "viewRecordingsDialogIsOpen",
     meeting_session_details |-> "meetingSessionDetailsDialogIsOpen",
     charge_card |-> "chargeCardDialogIsOpen"]

\* attendeeList, lines 243-249: noShow is attendee.noShow || false.
attendeeList(booking) ==
    [i \in DOMAIN booking.attendees |->
       [email |-> booking.attendees[i].email,
        noShow |-> booking.attendees[i].noShow = Some(TRUE)]]

\* useMutation's mutate: one more request in flight.
Mutate(mutation, variables) == [mutation EXCEPT !.inFlight = Append(@, variables)]

\* Variant: the request carries the attendee's noShow as it is.
noShowRequestAsIs(booking) ==
    [bookingUid |-> booking.id,
     attendees |-> <<[email |-> attendeeList(booking)[1].email,
                      noShow |-> attendeeList(booking)[1].noShow]>>]

\* The request of lines 538-541.
noShowRequest(booking) ==
    [bookingUid |-> booking.id,
     attendees |-> <<[email |-> attendeeList(booking)[1].email,
                      noShow |-> ~attendeeList(booking)[1].noShow]>>]

\* The onClick of an after-event action, lines 526-544.
afterEventActionOnClick(booking, action) ==
    /\ view.rendered
    /\ (action = "no_show" /\ Len(attendeeList(booking)) = 1)
          => Len(noShowMutation.inFlight) < MaxInFlight
    /\ selectedBookingForActions' = Some(booking)
    /\ dialogs' = IF action \in DOMAIN AfterEventDialog
                  THEN [dialogs EXCEPT ![AfterEventDialog[action]] = TRUE]
                  ELSE dialogs
    /\ noShowMutation' = IF action = "no_show" /\ Len(attendeeList(booking)) = 1
                         THEN Mutate(noShowMutation, noShowRequest(booking))
                         ELSE noShowMutation
    /\ UNCHANGED <<dataVars, selectedBooking, setLocationMutation, saveLocationEnded, toast,
                   invalidated, resolverVars, guardVars>>

\* The onClick of the report action, lines 551-555.
reportActionOnClick(booking) ==
    /\ view.rendered
    /\ selectedBookingForActions' = Some(booking)
    /\ dialogs' = [dialogs EXCEPT !["isOpenReportDialog"] = TRUE]
    /\ UNCHANGED <<dataVars, selectedBooking, mutationVars, resolverVars, guardVars>>

\* An open dialog calls the setter it was handed (setIsOpenDialog,
\* setShowLocationModal) with false.
setIsOpenDialog(flag) ==
    /\ \E d \in RenderedDialogs : d.flag = flag /\ d.isOpenDialog
    /\ dialogs' = [dialogs EXCEPT ![flag] = FALSE]
    /\ UNCHANGED <<dataVars, selectedBooking, selectedBookingForActions, mutationVars,
                   resolverVars, guardVars>>

\* handleRowClick, lines 835-840.
handleRowClick(row) ==
    /\ view.rendered
    /\ selectedBooking' = IF row.type = "data" THEN Some(row.booking) ELSE selectedBooking
    /\ UNCHANGED <<dataVars, selectedBookingForActions, dialogs, mutationVars,
                   resolverVars, guardVars>>

\* onClose of BookingDetailsSheet, line 1002.
onClose ==
    /\ selectedBooking # None
    /\ selectedBooking' = None
    /\ UNCHANGED <<dataVars, selectedBookingForActions, dialogs, mutationVars,
                   resolverVars, guardVars>>

NoNavigation ==
    [hasPrevious |-> FALSE, hasNext |-> FALSE, onPrevious |-> None, onNext |-> None]

\* findIndex, line 854: the first index of a row of that booking id, 0 for
\* the -1 of a booking that is not there.
FindIndex(rows, id) ==
    IF \E i \in DOMAIN rows : rows[i].booking.id = id
    THEN CHOOSE i \in DOMAIN rows :
           /\ rows[i].booking.id = id
           /\ \A j \in 1..(i - 1) : rows[j].booking.id # id
    ELSE 0

\* Variant: onPrevious goes back to the first row.
NavigationOverToFirst(rows) ==
    LET currentIndex == FindIndex(rows, selectedBooking[1].id)
        hasPrevious == currentIndex > 1
        hasNext == currentIndex < Len(rows)
    IN  IF currentIndex = 0 THEN NoNavigation
        ELSE [hasPrevious |-> hasPrevious,
              hasNext |-> hasNext,
              onPrevious |-> IF hasPrevious THEN Some(rows[1].booking) ELSE None,
              onNext |-> IF hasNext THEN Some(rows[currentIndex + 1].booking) ELSE None]

\* Lines 853-875 over a list of rows; onPrevious and onNext are given as the
\* booking the handler selects.
NavigationOver(rows) ==
    LET currentIndex == FindIndex(rows, selectedBooking[1].id)
        hasPrevious == currentIndex > 1
        hasNext == currentIndex < Len(rows)
    IN  IF currentIndex = 0 THEN NoNavigation
        ELSE [hasPrevious |-> hasPrevious,
              hasNext |-> hasNext,
              onPrevious |-> IF hasPrevious THEN Some(rows[currentIndex - 1].booking) ELSE None,
              onNext |-> IF hasNext THEN Some(rows[currentIndex + 1].booking) ELSE None]

\* Variant: the index taken in finalData, separators included (a separator
\* has no booking: it matches no id and selects nothing).
bookingNavigationOverAllRows ==
    IF selectedBooking = None THEN NoNavigation
    ELSE NavigationOver(
           [i \in DOMAIN view.finalData |->
              IF view.finalData[i].type = "data" THEN view.finalData[i]
              ELSE [type |-> "separator", booking |-> [id |-> 0]]])

\* bookingNavigation, lines 843-876.
bookingNavigation ==
    IF selectedBooking = None THEN NoNavigation
    ELSE NavigationOver(SelectSeq(view.finalData, LAMBDA row : row.type = "data"))

\* bookingNavigation.onPrevious, lines 864-866.
onPrevious ==
    /\ bookingNavigation.onPrevious # None
    /\ selectedBooking' = bookingNavigation.onPrevious
    /\ UNCHANGED <<dataVars, selectedBookingForActions, dialogs, mutationVars,
                   resolverVars, guardVars>>

\* bookingNavigation.onNext, lines 870-872.
onNext ==
    /\ bookingNavigation.onNext # None
    /\ selectedBooking' = bookingNavigation.onNext
    /\ UNCHANGED <<dataVars, selectedBookingForActions, dialogs, mutationVars,
                   resolverVars, guardVars>>

(***************************************************************************)
(* BookingsContent: the mutations and the refetch of the page              *)
(***************************************************************************)
\* t(key), and a message that comes as it is from the server.
T(key) == [localized |-> TRUE, text |-> key]
Message(text) == [localized |-> FALSE, text |-> text]

\* showToast(message, type)
Toast(message, type) == Some([message |-> message, type |-> type])

\* seq without its k-th element.
Remove(seq, k) == SubSeq(seq, 1, k - 1) \o SubSeq(seq, k + 1, Len(seq))

\* A request of the mutation is answered: it leaves the requests in flight
\* and its result is the mutation's last.
Settle(mutation, k, result) ==
    [inFlight |-> Remove(mutation.inFlight, k), last |-> Some(result)]

\* What markNoShow answers: data.message, or an error's message.
NoShowMessages == {"no_show_updated"}
NoShowErrorMessages == {"booking_not_found"}

\* Variant: onSuccess without the invalidation of line 181.
noShowMutationOnSuccessUnrefreshed(k, data) ==
    /\ k \in DOMAIN noShowMutation.inFlight
    /\ noShowMutation' = Settle(noShowMutation, k, [status |-> "success", message |-> data.message])
    /\ toast' = Toast(Message(data.message), "success")
    /\ UNCHANGED <<dataVars, selectionVars, setLocationMutation, saveLocationEnded,
                   invalidated, resolverVars, guardVars>>

\* noShowMutation.onSuccess, lines 179-182, for the k-th request in flight.
noShowMutationOnSuccess(k, data) ==
    /\ k \in DOMAIN noShowMutation.inFlight
    /\ noShowMutation' = Settle(noShowMutation, k, [status |-> "success", message |-> data.message])
    /\ toast' = Toast(Message(data.message), "success")
    /\ invalidated' = TRUE
    /\ UNCHANGED <<dataVars, selectionVars, setLocationMutation, saveLocationEnded,
                   resolverVars, guardVars>>

\* noShowMutation.onError, lines 183-185.
noShowMutationOnError(k, err) ==
    /\ k \in DOMAIN noShowMutation.inFlight
    /\ noShowMutation' = Settle(noShowMutation, k, [status |-> "error", message |-> err.message])
    /\ toast' = Toast(Message(err.message), "error")
    /\ UNCHANGED <<dataVars, selectionVars, setLocationMutation, saveLocationEnded,
                   invalidated, resolverVars, guardVars>>

\* The errors editLocation may answer with: e.data?.code (none without
\* e.data) and e.message.
LocationErrors ==
    [code : {None, Some("UNAUTHORIZED"), Some("BAD_REQUEST"), Some("NOT_FOUND")},
     message : {"", "invalid_location"}]

\* Variant: the generic message whatever the code.
LocationErrorMessageGeneric(e) == T("location_update_failed")

\* Lines 195-199: the entry of errorMessages for the code, if the table has
\* one and it is not the empty string, or else t("location_update_failed").
LocationErrorMessage(e) ==
    LET errorMessages ==
            [UNAUTHORIZED |-> T("you_are_unauthorized_to_make_this_change_to_the_booking"),
             BAD_REQUEST |-> Message(e.message)]
        entry == IF e.code # None /\ e.code[1] \in DOMAIN errorMessages
                 THEN Some(errorMessages[e.code[1]])
                 ELSE None
    IN  IF entry # None /\ entry[1].text # ""
        THEN entry[1]
        ELSE T("location_update_failed")

\* Variant: saveLocation without the try/catch of lines 212-220.
saveLocationUncaught == "threw"

\* saveLocation after mutateAsync rejected: the catch of lines 218-220
\* swallows the error and the call returns.
saveLocationCaught == "returned"

\* saveLocation, lines 204-221, called by the open EditLocationDialog, up to
\* its await.
saveLocation(newLocation, credentialId) ==
    /\ \E d \in RenderedDialogs : d.flag = "isOpenSetLocationDialog" /\ d.isOpenDialog
    /\ IF selectedBookingForActions = None
       THEN /\ saveLocationEnded' = "returned"
            /\ UNCHANGED setLocationMutation
       ELSE /\ Len(setLocationMutation.inFlight) < MaxInFlight
            /\ setLocationMutation' =
                 Mutate(setLocationMutation,
                        [bookingId |-> selectedBookingForActions[1].id,
                         newLocation |-> newLocation,
                         credentialId |-> credentialId])
            /\ UNCHANGED saveLocationEnded
    /\ UNCHANGED <<dataVars, selectionVars, noShowMutation, toast, invalidated,
                   resolverVars, guardVars>>

\* setLocationMutation.onSuccess, lines 189-193; mutateAsync resolves and
\* saveLocation returns.
setLocationMutationOnSuccess(k) ==
    /\ k \in DOMAIN setLocationMutation.inFlight
    /\ setLocationMutation' =
         Settle(setLocationMutation, k, [status |-> "success", error |-> None])
    /\ toast' = Toast(T("location_updated"), "success")
    /\ dialogs' = [dialogs EXCEPT !["isOpenSetLocationDialog"] = FALSE]
    /\ invalidated' = TRUE
    /\ saveLocationEnded' = "returned"
    /\ UNCHANGED <<dataVars, selectedBooking, selectedBookingForActions, noShowMutation,
                   resolverVars, guardVars>>

\* setLocationMutation.onError, lines 194-201; mutateAsync rejects into the
\* catch of saveLocation.
setLocationMutationOnError(k, e) ==
    /\ k \in DOMAIN setLocationMutation.inFlight
    /\ setLocationMutation' =
         Settle(setLocationMutation, k, [status |-> "error", error |-> Some(e)])
    /\ toast' = Toast(LocationErrorMessage(e), "error")
    /\ saveLocationEnded' = saveLocationCaught
    /\ UNCHANGED <<dataVars, selectionVars, noShowMutation, invalidated,
                   resolverVars, guardVars>>

\* The bookings query answers again (after an invalidation, or for any of
\* the query layer's own reasons): a new page, and the memos of lines
\* 706-803 run on it.
refetch(bookings) ==
    /\ view.rendered
    /\ query' = Some(bookings)
    /\ UNCHANGED <<status, now>>
    /\ invalidated' = FALSE
    /\ view' = Rendered(1, MemosOn(Some(bookings)))
    /\ UNCHANGED <<selectionVars, noShowMutation, setLocationMutation, saveLocationEnded,
                   toast, resolverVars, guardVars>>

(***************************************************************************)
(* The specifications, one per component                                   *)
(***************************************************************************)
InitResolver == ResolverStarts /\ GuardUnused /\ BookingsUnused
SpecResolver == InitResolver /\ [][NextResolver]_vars

InitGuard == GuardStarts /\ ResolverUnused /\ BookingsUnused
SpecGuard == InitGuard /\ [][NextGuard]_vars

InitBookings == BookingsStarts /\ ResolverUnused /\ GuardUnused
SpecBookings == InitBookings /\ [][NextBookings]_vars

\* The view on 2025-08-01 with a page of the given set, before its first
\* render.
ContentStartsOn(tab, pages) ==
    /\ ContentStarts
    /\ now = 5
    /\ status = tab
    /\ \E bookings \in pages : query = Some(bookings)
    /\ view = NotRendered

NoAttendees == <<>>

\* Bookings that differ in what the dialogs of lines 928-970 are rendered
\* on: none of them; ChargeCardDialog and ViewRecordingsDialog; paid without
\* a payment, Cal Video and routed to a team; a blank location and routed
\* without a team.
DialogDetails ==
    {Details(NoAttendees, FALSE, <<>>, Some("office"), None, None),
     Details(NoAttendees, TRUE, <<[amount |-> 500, currency |-> "usd"]>>, None, None, None),
     Details(NoAttendees, TRUE, <<>>, Some("integrations:daily"), Some(1), Some(5)),
     Details(NoAttendees, FALSE, <<>>, Some(" "), Some(1), None)}

\* The row actions that open dialogs, the dialogs' closing and the row
\* clicks, on a page of up to two of next month's bookings.
InitDialogs ==
    /\ ContentStartsOn("upcoming", Pages(2, {endOfMonth(5) + 2}, DialogDetails))
    /\ ResolverUnused
    /\ GuardUnused

NextDialogs ==
    \/ render
    \/ \E booking \in RowBookings : pendingActionOnClick(booking)
    \/ \E booking \in RowBookings, action \in EditEventActionIds :
         editEventActionOnClick(booking, action)
    \/ \E booking \in RowBookings, action \in DOMAIN AfterEventDialog :
         afterEventActionOnClick(booking, action)
    \/ \E booking \in RowBookings : reportActionOnClick(booking)
    \/ \E flag \in DialogFlags : setIsOpenDialog(flag)
    \/ \E row \in Range(view.finalData) : handleRowClick(row)

SpecDialogs == InitDialogs /\ [][NextDialogs]_vars

\* A booking with no details of interest.
PlainDetails == Details(NoAttendees, FALSE, <<>>, Some("office"), None, None)

\* The details sheet and its navigation, on pages of bookings of today, of
\* this month and of next month that a refetch replaces.
NavigationPages ==
    Pages(MaxRows, {startOfMonth(5), startOfMonth(5) + 2, endOfMonth(5) + 2},
          {PlainDetails})

InitNavigation ==
    /\ \E tab \in {"upcoming", "past"} : ContentStartsOn(tab, NavigationPages)
    /\ ResolverUnused
    /\ GuardUnused

NextNavigation ==
    \/ render
    \/ \E row \in Range(view.finalData) : handleRowClick(row)
    \/ onPrevious
    \/ onNext
    \/ onClose
    \/ \E bookings \in NavigationPages : refetch(bookings)

SpecNavigation == InitNavigation /\ [][NextNavigation]_vars

\* Bookings without attendee, with one whose noShow is null, with one marked
\* as a no-show, and with two attendees.
MutationDetails ==
    {Details(attendees, FALSE, <<>>, Some("office"), None, None) :
       attendees \in {NoAttendees,
                      <<Attendee("a@example.com", None)>>,
                      <<Attendee("a@example.com", Some(TRUE))>>,
                      <<Attendee("a@example.com", Some(FALSE)),
                        Attendee("b@example.com", Some(TRUE))>>}}

\* The empty page and the pages of one booking.
MutationPages == Pages(1, {endOfMonth(5) + 2}, MutationDetails)

\* The two mutations from their row action to their answer, and the
\* refetch an invalidation brings.
InitMutations ==
    /\ ContentStartsOn("upcoming", MutationPages)
    /\ ResolverUnused
    /\ GuardUnused

NextMutations ==
    \/ render
    \/ \E booking \in RowBookings : editEventActionOnClick(booking, "change_location")
    \/ \E booking \in RowBookings : afterEventActionOnClick(booking, "no_show")
    \/ setIsOpenDialog("isOpenSetLocationDialog")
    \/ \E credentialId \in {None, Some(7)} : saveLocation("integrations:daily", credentialId)
    \/ \E k \in 1..MaxInFlight, message \in NoShowMessages :
         noShowMutationOnSuccess(k, [message |-> message])
    \/ \E k \in 1..MaxInFlight, message \in NoShowErrorMessages :
         noShowMutationOnError(k, [message |-> message])
    \/ \E k \in 1..MaxInFlight : setLocationMutationOnSuccess(k)
    \/ \E k \in 1..MaxInFlight, e \in LocationErrors : setLocationMutationOnError(k, e)
    \/ \E bookings \in MutationPages : invalidated /\ refetch(bookings)

SpecMutations == InitMutations /\ [][NextMutations]_vars

\* The no-show action alone: its click, the two answers of its mutation and
\* the refetch an invalidation brings, over the pages of up to two bookings.
NoShowPages == Pages(2, {endOfMonth(5) + 2}, MutationDetails)

InitNoShow ==
    /\ ContentStartsOn("upcoming", NoShowPages)
    /\ ResolverUnused
    /\ GuardUnused

NextNoShow ==
    \/ render
    \/ \E booking \in RowBookings : afterEventActionOnClick(booking, "no_show")
    \/ \E k \in 1..MaxInFlight, message \in NoShowMessages :
         noShowMutationOnSuccess(k, [message |-> message])
    \/ \E k \in 1..MaxInFlight, message \in NoShowErrorMessages :
         noShowMutationOnError(k, [message |-> message])
    \/ \E bookings \in NoShowPages : invalidated /\ refetch(bookings)

SpecNoShow == InitNoShow /\ [][NextNoShow]_vars

(***************************************************************************)
(* Properties of the accessible-users resolver (SpecResolver)              *)
(***************************************************************************)
\* The memberships that make user u an administrator of an organization.
OrgAdminRows(u) ==
    {m \in membership : m.userId = u /\ m.role \in {"OWNER", "ADMIN"} /\ isOrganization[m.teamId]}

\* The users with an accepted membership in team t.
AcceptedMembers(t) == {m.userId : m \in {x \in membership : x.teamId = t /\ x.accepted}}

\* The organizations the call's admin lookup may resolve to: any the admin
\* administers for the declarations of lines 9-75, those where the admin's
\* own membership is accepted for the declarations of lines 132-200.
LookupTeams ==
    IF resolver.op \in {"getAccessibleUsers", "retrieveOrgScopedAccessibleUsers"}
    THEN {m.teamId : m \in OrgAdminRows(resolver.adminId)}
    ELSE {m.teamId : m \in {x \in OrgAdminRows(resolver.adminId) : x.accepted}}

\* C1: an admin without any OWNER/ADMIN membership in a team flagged as an
\* organization gets the empty list from both resolver operations, whatever
\* the membership table and the candidate list.
C1_NoOrgAdminReturnsEmpty ==
    (resolver.op # "none" /\ OrgAdminRows(resolver.adminId) = {})
        => resolver.result = <<>>

\* The admin owns a plain team with an accepted member among the candidates,
\* and still gets nothing.
C1_Witness ==
    /\ resolver.op = "getAccessibleUsers"
    /\ OrgAdminRows(resolver.adminId) = {}
    /\ resolver.result = <<>>
    /\ \E m, c \in membership :
         /\ m.userId = resolver.adminId /\ m.role = "OWNER" /\ m.accepted
         /\ ~isOrganization[m.teamId]
         /\ c.teamId = m.teamId /\ c.accepted /\ c.userId # m.userId
         /\ c.userId \in Range(resolver.memberUserIds)

\* C2: with an organization-admin membership and a non-empty candidate list,
\* getAccessibleUsers returns, as a set, exactly the candidates that have an
\* accepted membership in the organization the admin lookup resolved to.
C2_ExactlyAcceptedCandidates ==
    (/\ resolver.op \in {"getAccessibleUsers", "getAccessibleUsersAccepted"}
     /\ LookupTeams # {}
     /\ Len(resolver.memberUserIds) > 0)
        => /\ resolver.orgId # None
           /\ resolver.orgId[1] \in LookupTeams
           /\ Range(resolver.result)
                = Range(resolver.memberUserIds) \cap AcceptedMembers(resolver.orgId[1])

\* One candidate is returned and another, whose membership in the
\* organization is not accepted, is left out.
C2_Witness ==
    /\ resolver.op = "getAccessibleUsers"
    /\ resolver.orgId # None
    /\ Len(resolver.memberUserIds) = 2
    /\ Len(resolver.result) = 1
    /\ \E m \in membership :
         /\ m.teamId = resolver.orgId[1] /\ ~m.accepted
         /\ m.userId \in Range(resolver.memberUserIds)
         /\ m.userId \notin Range(resolver.result)

\* C3: an admin whose only OWNER/ADMIN organization memberships are not
\* accepted gets the empty list from both resolver operations.
C3_UnacceptedAdminReturnsEmpty ==
    (/\ resolver.op # "none"
     /\ OrgAdminRows(resolver.adminId) # {}
     /\ \A m \in OrgAdminRows(resolver.adminId) : ~m.accepted)
        => resolver.result = <<>>

\* C4, as claimed: with an empty candidate list getAccessibleUsers returns
\* the empty list and issues no query against the membership store.
C4_EmptyListNoQuery ==
    (/\ resolver.op \in {"getAccessibleUsers", "getAccessibleUsersAccepted"}
     /\ resolver.memberUserIds = <<>>)
        => resolver.result = <<>> /\ resolver.queries = <<>>

\* C4, amended: with an empty candidate list getAccessibleUsers returns the
\* empty list after the admin lookup alone; the candidates' findMany is
\* never issued.
C4_EmptyListOnlyAdminLookup ==
    (/\ resolver.op \in {"getAccessibleUsers", "getAccessibleUsersAccepted"}
     /\ resolver.memberUserIds = <<>>)
        => resolver.result = <<>> /\ resolver.queries = <<"findFirst">>

\* The admin lookup found an organization that has accepted members, and the
\* empty candidate list ended the call there.
C4_Witness ==
    /\ resolver.op = "getAccessibleUsers"
    /\ resolver.memberUserIds = <<>>
    /\ resolver.orgId # None
    /\ AcceptedMembers(resolver.orgId[1]) # {}
    /\ resolver.queries = <<"findFirst">>

\* C5: with an organization-admin membership, retrieveOrgScopedAccessibleUsers
\* returns, as a set, exactly the users with an accepted membership in the
\* organization the admin lookup resolved to: no user whose membership there
\* is not accepted, no user of other teams only.
C5_ExactlyAcceptedMembers ==
    (/\ resolver.op \in {"retrieveOrgScopedAccessibleUsers",
                         "retrieveOrgScopedAccessibleUsersAccepted"}
     /\ LookupTeams # {})
        => /\ resolver.orgId # None
           /\ resolver.orgId[1] \in LookupTeams
           /\ Range(resolver.result) = AcceptedMembers(resolver.orgId[1])

\* The list is not empty, and it leaves out a user whose membership in the
\* organization is not accepted and a user who is an accepted member of the
\* other team only.
C5_Witness ==
    /\ resolver.op = "retrieveOrgScopedAccessibleUsers"
    /\ resolver.orgId # None
    /\ Len(resolver.result) > 0
    /\ \E m, x \in membership :
         /\ m.teamId = resolver.orgId[1] /\ ~m.accepted
         /\ m.userId \notin Range(resolver.result)
         /\ x.teamId # resolver.orgId[1] /\ x.accepted
         /\ x.userId \notin Range(resolver.result)

(***************************************************************************)
(* Properties of the team-group-mapping guard (SpecGuard)                  *)
(***************************************************************************)
\* A team with the call's teamId exists under the call's organization.
TeamUnderOrganization ==
    /\ guard.teamId # None
    /\ guard.organizationId # None
    /\ \E r \in team : r.id = guard.teamId[1] /\ r.parentId = guard.organizationId

BadRequest == guard.outcome.kind = "throw" /\ guard.outcome.statusCode = 400

\* C6: called with a null organizationId the guard fails with status 400 for
\* every user and teamId, before the access check or the team lookup is made.
C6_NullOrganizationIsBadRequest ==
    (guard.outcome.kind # "none" /\ guard.organizationId = None)
        => BadRequest /\ guard.calls = <<>>

\* organizationId is null and the teamId names a team that does exist under
\* an organization.
C6_Witness ==
    /\ guard.outcome.kind = "throw"
    /\ guard.organizationId = None
    /\ guard.teamId # None
    /\ \E r \in team : r.id = guard.teamId[1] /\ r.parentId # None

\* C7: for every supplied teamId the guard fails with status 400 unless a
\* team with that id exists whose parentId is the given organizationId.
C7_UnknownTeamIsBadRequest ==
    (/\ guard.outcome.kind # "none"
     /\ guard.teamId # None
     /\ ~TeamUnderOrganization)
        => BadRequest

\* C8: when canAccessOrganization denies access the guard fails with status
\* 400 and the message of that answer, with or without a teamId, valid or
\* not; the team lookup is not reached.
C8_DeniedCarriesCheckMessage ==
    (/\ guard.outcome.kind # "none"
     /\ guard.reply # None
     /\ ~guard.reply[1].access)
        => /\ BadRequest
           /\ guard.outcome.message = guard.reply[1].message
           /\ guard.calls = <<"canAccessOrganization">>

\* Access is denied on a call whose teamId names a team under the
\* organization.
C8_Witness ==
    /\ guard.outcome.kind = "throw"
    /\ guard.reply # None
    /\ ~guard.reply[1].access
    /\ TeamUnderOrganization

\* C9: the guard returns exactly when organizationId is present, access is
\* granted and no teamId is supplied or the team exists under the
\* organization; it then returns the organizationId it was given, and in
\* every other case it throws.
C9_ReturnsIffAuthorized ==
    guard.outcome.kind # "none"
        => /\ guard.outcome.kind \in {"return", "throw"}
           /\ guard.outcome.kind = "return"
                <=> /\ guard.organizationId # None
                    /\ guard.reply # None
                    /\ guard.reply[1].access
                    /\ (guard.teamId = None \/ TeamUnderOrganization)
           /\ guard.outcome.kind = "return"
                => guard.outcome.organizationId = guard.organizationId

(***************************************************************************)
(* Properties of the booking list view-model builder (SpecBookings)        *)
(***************************************************************************)
\* The month a bucket's rows start in.
BucketMonth(bucket) == MonthIndex(bucket.rows[1].booking.startTime)

\* A bucket's section: its separator ahead of its rows, nothing if it is empty.
SectionOf(label, rows) == IF rows = <<>> THEN <<>> ELSE <<Separator(label)>> \o rows

\* The sections of the buckets of a set, the earliest month first.
RECURSIVE InMonthOrder(_)
InMonthOrder(buckets) ==
    IF buckets = {} THEN <<>>
    ELSE LET first == CHOOSE b \in buckets : \A c \in buckets : BucketMonth(b) <= BucketMonth(c)
             t == first.rows[1].booking.startTime
         IN  SectionOf([text |-> "MMMM YYYY", year |-> YearOf(t), month |-> MonthOf(t)],
                       first.rows)
                 \o InMonthOrder(buckets \ {first})

\* C10: under status "upcoming" the rows are the Today section, then the This
\* Month section, then the section of each future month in ascending
\* chronological order (a section is the separator and the rows of a bucket
\* that is not empty); no month section precedes one of an earlier month.
C10_UpcomingSectionsInOrder ==
    (status = "upcoming" /\ view.rendered)
        => /\ view.finalData
                = SectionOf(TodayLabel, view.groupedBookings.today)
                    \o SectionOf(ThisMonthLabel, view.groupedBookings.currentMonth)
                    \o InMonthOrder(Range(view.groupedBookings.monthBuckets))
           /\ \A i, j \in DOMAIN view.finalData :
                (/\ i < j
                 /\ view.finalData[i].type = "separator"
                 /\ view.finalData[j].type = "separator"
                 /\ view.finalData[i].label.text = "MMMM YYYY")
                    => /\ view.finalData[j].label.text = "MMMM YYYY"
                       /\ (12 * view.finalData[i].label.year) + view.finalData[i].label.month
                            < (12 * view.finalData[j].label.year) + view.finalData[j].label.month

\* A page with a booking of today and bookings of two future months, the
\* later month ahead of the earlier one in the page.
C10_Witness ==
    /\ status = "upcoming"
    /\ view.rendered
    /\ Len(view.groupedBookings.today) > 0
    /\ Len(view.groupedBookings.monthBuckets) = 2
    /\ BucketMonth(view.groupedBookings.monthBuckets[1])
         > BucketMonth(view.groupedBookings.monthBuckets[2])
    /\ Len(view.finalData) = 6

\* The ids of the recurring series that occur in the page.
SeriesIds ==
    {b.recurringEventId[1] : b \in {x \in Range(query[1]) : x.recurringEventId # None}}

DataRows(rows) == SelectSeq(rows, LAMBDA row : row.type = "data")

DedupStatuses == {"recurring", "unconfirmed", "cancelled"}

\* C11: under status "recurring", "unconfirmed" or "cancelled", every
\* recurring series that occurs in the page has exactly one data row in the
\* final row sequence, whatever the number and the start times of its
\* bookings.
C11_OneRowPerSeries ==
    (view.rendered /\ query # None /\ status \in DedupStatuses)
        => \A id \in SeriesIds :
             Cardinality({i \in DOMAIN view.finalData :
                            /\ view.finalData[i].type = "data"
                            /\ view.finalData[i].booking.recurringEventId = Some(id)}) = 1

\* The positions of the page whose bookings the deduplication keeps: all of
\* them, or under a deduplicating status those without a series and the
\* first of each series.
KeptPositions ==
    {i \in DOMAIN query[1] :
       \/ status \notin DedupStatuses
       \/ query[1][i].recurringEventId = None
       \/ \A j \in 1..(i - 1) : query[1][j].recurringEventId # query[1][i].recurringEventId}

\* The rows of all the buckets.
BucketRows ==
    view.groupedBookings.today \o view.groupedBookings.currentMonth
        \o RowsOf(view.groupedBookings.monthBuckets, 1)

\* C12: every booking kept after deduplication is in exactly one of the
\* buckets today, current month and future months, whatever its start time
\* (before today, before the start of the month, on a month boundary).
C12_KeptInExactlyOneBucket ==
    (view.rendered /\ query # None)
        => \A i \in KeptPositions :
             Cardinality({k \in DOMAIN BucketRows :
                            BucketRows[k].booking.id = query[1][i].id}) = 1

SameDay(t, u) == t \div 2 = u \div 2

\* C13: under every status other than "upcoming" the row sequence has no
\* separator, is the this-month rows followed by the future-month rows, and
\* holds no booking that starts today.
C13_OtherStatusesFlat ==
    (view.rendered /\ status # "upcoming")
        => /\ \A i \in DOMAIN view.finalData :
                /\ view.finalData[i].type = "data"
                /\ ~SameDay(view.finalData[i].booking.startTime, now)
           /\ view.finalData
                = view.groupedBookings.currentMonth
                    \o RowsOf(view.groupedBookings.monthBuckets, 1)
           /\ \A i, j \in DOMAIN view.finalData :
                (i < j /\ MonthIndex(view.finalData[j].booking.startTime) = MonthIndex(now))
                    => MonthIndex(view.finalData[i].booking.startTime) = MonthIndex(now)

\* A page of the "past" tab with a booking of today, one of this month and
\* one of a later month: two rows, today's booking not among them.
C13_Witness ==
    /\ view.rendered
    /\ status = "past"
    /\ Len(view.groupedBookings.today) = 1
    /\ Len(view.groupedBookings.currentMonth) = 1
    /\ Len(view.groupedBookings.monthBuckets) = 1
    /\ Len(view.finalData) = 2

\* C14: a second run of the grouping on the same page, status and instant
\* yields the row sequence of the first: the series tracking of a run does
\* not reach the next run.
C14_RerunYieldsSameRows ==
    [][(view.rendered /\ query' = query /\ status' = status /\ now' = now)
          => view'.finalData = view.finalData]_vars

\* Two runs on a page of the "cancelled" tab where the first run tracked a
\* second booking of a series and emitted the row of the first.
C14_Witness ==
    /\ view.runs = 2
    /\ status = "cancelled"
    /\ \E id \in DOMAIN view.shownBookings : Len(view.shownBookings[id]) = 2
    /\ Len(view.finalData) > 0
    /\ \E i \in DOMAIN view.finalData : view.finalData[i].booking.recurringEventId # None

\* The no-show request the sentence asks for: the one attendee's email, and
\* noShow the negation of the attendee's value, null counting as false.
NegatedNoShow(booking) ==
    [bookingUid |-> booking.id,
     attendees |-> <<[email |-> booking.attendees[1].email,
                      noShow |-> ~(booking.attendees[1].noShow = Some(TRUE))]>>]

\* A step of SpecNoShow that is a click on the no-show action: the view, the
\* invalidation flag and the answers are left alone and no request leaves
\* the queue.
NoShowClicked ==
    /\ view' = view
    /\ invalidated' = invalidated
    /\ toast' = toast
    /\ noShowMutation'.last = noShowMutation.last
    /\ Len(noShowMutation'.inFlight) >= Len(noShowMutation.inFlight)
    /\ selectedBookingForActions' # None

\* C22: a click on the no-show action of a row issues the mark-no-show
\* mutation iff the booking has exactly one attendee, the request then
\* carrying that attendee's email and the negation of the attendee's noShow;
\* with no or several attendees it issues nothing; it opens no dialog.
C22_NoShowOnlyForOneAttendee ==
    [][NoShowClicked =>
         LET booking == selectedBookingForActions'[1]
         IN  /\ (Len(booking.attendees) = 1) <=> (noShowMutation' # noShowMutation)
             /\ (Len(booking.attendees) = 1)
                  => noShowMutation'.inFlight
                       = Append(noShowMutation.inFlight, NegatedNoShow(booking))
             /\ dialogs' = dialogs]_vars

\* The request of a booking whose one attendee is marked as a no-show is in
\* flight: it asks for noShow false.
C22_Witness ==
    /\ selectedBookingForActions # None
    /\ Len(selectedBookingForActions[1].attendees) = 1
    /\ selectedBookingForActions[1].attendees[1].noShow = Some(TRUE)
    /\ Len(noShowMutation.inFlight) = 1
    /\ noShowMutation.inFlight[1].attendees[1].noShow = FALSE
    /\ \A flag \in DOMAIN dialogs : ~dialogs[flag]

\* The separators of the rows that carry the label of the given kind.
SeparatorsOf(rows, text) ==
    {i \in DOMAIN rows : rows[i].type = "separator" /\ rows[i].label.text = text}

\* C21: in the "upcoming" row sequence every separator is followed at once
\* by a data row (no two separators in a row, none at the end), and the
\* separator of a bucket is there only if the bucket holds rows.
C21_SeparatorsHeadRows ==
    (status = "upcoming" /\ view.rendered)
        => /\ \A i \in DOMAIN view.finalData :
                view.finalData[i].type = "separator"
                    => /\ i < Len(view.finalData)
                       /\ view.finalData[i + 1].type = "data"
           /\ SeparatorsOf(view.finalData, "today") # {}
                => view.groupedBookings.today # <<>>
           /\ SeparatorsOf(view.finalData, "this_month") # {}
                => view.groupedBookings.currentMonth # <<>>
           /\ \A i \in SeparatorsOf(view.finalData, "MMMM YYYY") :
                \E b \in Range(view.groupedBookings.monthBuckets) :
                  /\ b.rows # <<>>
                  /\ YearOf(b.rows[1].booking.startTime) = view.finalData[i].label.year
                  /\ MonthOf(b.rows[1].booking.startTime) = view.finalData[i].label.month

\* Today and one future month hold bookings and the rest of this month
\* holds none: two separators, none for This Month.
C21_Witness ==
    /\ status = "upcoming"
    /\ view.rendered
    /\ Len(view.groupedBookings.today) = 2
    /\ view.groupedBookings.currentMonth = <<>>
    /\ Len(view.groupedBookings.monthBuckets) = 1
    /\ Len(view.finalData) = 5

\* Two bookings are of the same bucket: both of today, or of the same month
\* and neither of today.
SameBucket(a, b) ==
    \/ SameDay(a.startTime, now) /\ SameDay(b.startTime, now)
    \/ /\ ~SameDay(a.startTime, now)
       /\ ~SameDay(b.startTime, now)
       /\ MonthIndex(a.startTime) = MonthIndex(b.startTime)

\* C23: the data rows of the final row sequence wrap bookings of the page,
\* none of them twice, and the rows of one bucket are in the order their
\* bookings have in the page.
C23_RowsAreSubsequenceOfPage ==
    (view.rendered /\ query # None)
        => LET rows == DataRows(view.finalData)
           IN  /\ \A i \in DOMAIN rows :
                    /\ rows[i].booking.id \in DOMAIN query[1]
                    /\ rows[i].booking = query[1][rows[i].booking.id]
               /\ \A i, j \in DOMAIN rows :
                    i # j => rows[i].booking.id # rows[j].booking.id
               /\ \A i, j \in DOMAIN rows :
                    (i < j /\ SameBucket(rows[i].booking, rows[j].booking))
                        => rows[i].booking.id < rows[j].booking.id

\* A page of three bookings of one future month, of which the second and
\* third are of one series under a deduplicating status: the rows are the
\* first and the second, in that order.
C23_Witness ==
    /\ view.rendered
    /\ status = "recurring"
    /\ query # None
    /\ Len(query[1]) = 3
    /\ Len(view.groupedBookings.monthBuckets) = 1
    /\ Len(view.finalData) = 2
    /\ view.finalData[1].booking.id = 1
    /\ view.finalData[2].booking.id = 2

(***************************************************************************)
(* Properties of the row actions and the dialogs (SpecDialogs)             *)
(***************************************************************************)
\* C15: after any sequence of action clicks on rows and of dialog openings
\* and closings there is at most one selected booking for actions, and the
\* dialogs that are open together are all given the same booking.
C15_OpenDialogsShareOneBooking ==
    /\ Len(selectedBookingForActions) <= 1
    /\ \A d, e \in RenderedDialogs :
         (d.isOpenDialog /\ e.isOpenDialog) => d.booking = e.booking

\* Three dialogs are open after action clicks on two different rows, and the
\* details sheet shows the row that is not selected for actions.
C15_Witness ==
    /\ selectedBooking # None
    /\ selectedBookingForActions # None
    /\ selectedBooking[1].id # selectedBookingForActions[1].id
    /\ Cardinality({d \in RenderedDialogs : d.isOpenDialog}) = 3
    /\ dialogs["isOpenReportDialog"]

(***************************************************************************)
(* Properties of the details sheet's navigation (SpecNavigation)           *)
(***************************************************************************)
\* The positions of the selected booking among the data rows on display.
SelectedPositions ==
    {i \in DOMAIN DataRows(view.finalData) :
       DataRows(view.finalData)[i].booking.id = selectedBooking[1].id}

\* C16: previous/next is over the data rows, separators left out: with the
\* selected booking at index i of the data rows, hasPrevious holds iff i is
\* not the first index and hasNext iff i is not the last, onPrevious and
\* onNext select the booking of the data row before and after; with nothing
\* selected, or a selected booking that is not in the rows, both flags are
\* false and no handler is offered.
C16_NavigationOverDataRows ==
    view.rendered =>
      IF selectedBooking = None \/ SelectedPositions = {}
      THEN /\ ~bookingNavigation.hasPrevious
           /\ ~bookingNavigation.hasNext
           /\ bookingNavigation.onPrevious = None
           /\ bookingNavigation.onNext = None
      ELSE \A i \in SelectedPositions :
             LET rows == DataRows(view.finalData)
             IN  /\ bookingNavigation.hasPrevious <=> i > 1
                 /\ bookingNavigation.hasNext <=> i < Len(rows)
                 /\ bookingNavigation.onPrevious
                      = IF i > 1 THEN Some(rows[i - 1].booking) ELSE None
                 /\ bookingNavigation.onNext
                      = IF i < Len(rows) THEN Some(rows[i + 1].booking) ELSE None

\* The "upcoming" tab shows three bookings under three separators, and the
\* one in the middle is selected: both neighbours are a separator away.
C16_Witness ==
    /\ status = "upcoming"
    /\ Len(view.finalData) = 6
    /\ selectedBooking # None
    /\ SelectedPositions = {2}
    /\ bookingNavigation.hasPrevious
    /\ bookingNavigation.hasNext

\* A step that leaves the row list alone and selects what onNext, or
\* onPrevious, selects.
NavigatedNext ==
    /\ view' = view
    /\ bookingNavigation.onNext # None
    /\ selectedBooking' = bookingNavigation.onNext

NavigatedPrevious ==
    /\ view' = view
    /\ bookingNavigation.onPrevious # None
    /\ selectedBooking' = bookingNavigation.onPrevious

\* C24: with the row list unchanged, onNext followed by onPrevious selects
\* the booking that was selected before (the booking of that id), and so
\* does onPrevious followed by onNext; and onNext and onPrevious select
\* nothing but the booking of a data row of the list.
C24_NavigationReversibleAndBounded ==
    [][/\ NavigatedNext
          => /\ bookingNavigation'.hasPrevious
             /\ bookingNavigation'.onPrevious # None
             /\ bookingNavigation'.onPrevious[1].id = selectedBooking[1].id
       /\ NavigatedPrevious
          => /\ bookingNavigation'.hasNext
             /\ bookingNavigation'.onNext # None
             /\ bookingNavigation'.onNext[1].id = selectedBooking[1].id
       /\ (NavigatedNext \/ NavigatedPrevious)
          => \E row \in Range(DataRows(view.finalData)) :
               row.booking = selectedBooking'[1]]_vars

\* Under "past" the last of three rows is selected: onNext has nothing to
\* select, onPrevious selects the row in the middle.
C24_Witness ==
    /\ status = "past"
    /\ view.rendered
    /\ Len(DataRows(view.finalData)) = 3
    /\ selectedBooking # None
    /\ SelectedPositions = {3}
    /\ bookingNavigation.hasPrevious
    /\ ~bookingNavigation.hasNext
    /\ bookingNavigation.onPrevious = Some(DataRows(view.finalData)[2].booking)

(***************************************************************************)
(* Properties of the mutations (SpecMutations)                             *)
(***************************************************************************)
\* A step in which a request of the mutation is answered.
NoShowAnswered == Len(noShowMutation'.inFlight) < Len(noShowMutation.inFlight)
LocationAnswered == Len(setLocationMutation'.inFlight) < Len(setLocationMutation.inFlight)

\* C17: the step that handles a successful mark-no-show or edit-location
\* answer invalidates the cached booking list, the step that handles a
\* failed one leaves the invalidation as it was, and neither touches the
\* bookings the view holds.
C17_SuccessInvalidatesFailureDoesNot ==
    [][/\ (NoShowAnswered /\ noShowMutation'.last[1].status = "success")
            => (invalidated' /\ query' = query)
       /\ (NoShowAnswered /\ noShowMutation'.last[1].status = "error")
            => (invalidated' = invalidated /\ query' = query)
       /\ (LocationAnswered /\ setLocationMutation'.last[1].status = "success")
            => (invalidated' /\ query' = query)
       /\ (LocationAnswered /\ setLocationMutation'.last[1].status = "error")
            => (invalidated' = invalidated /\ query' = query)]_vars

\* A mark-no-show succeeded, the list is invalidated and not yet refetched,
\* and an edit-location has failed.
C17_Witness ==
    /\ noShowMutation.last # None
    /\ noShowMutation.last[1].status = "success"
    /\ setLocationMutation.last # None
    /\ setLocationMutation.last[1].status = "error"
    /\ invalidated

\* The step handles an edit-location failure.
LocationFailed == LocationAnswered /\ setLocationMutation'.last[1].status = "error"

\* The message the claim gives for the error e.
MessageByCode(e) ==
    IF e.code = Some("UNAUTHORIZED")
    THEN T("you_are_unauthorized_to_make_this_change_to_the_booking")
    ELSE IF e.code = Some("BAD_REQUEST") THEN Message(e.message)
    ELSE T("location_update_failed")

\* The same, but for a BAD_REQUEST without a message of its own.
MessageByCodeUnlessEmpty(e) ==
    IF e.code = Some("BAD_REQUEST") /\ e.message = ""
    THEN T("location_update_failed")
    ELSE MessageByCode(e)

\* C18, as claimed: UNAUTHORIZED shows the localized unauthorized text,
\* BAD_REQUEST the error's own message, every other or missing code the
\* generic location-update-failed message.
C18_MessageByCode ==
    [][LocationFailed
         => toast' = Toast(MessageByCode(setLocationMutation'.last[1].error[1]), "error")]_vars

\* C18, amended: BAD_REQUEST shows the error's own message if that is not
\* empty, and the generic message if it is.
C18_MessageByCodeUnlessEmpty ==
    [][LocationFailed
         => toast' = Toast(MessageByCodeUnlessEmpty(setLocationMutation'.last[1].error[1]),
                           "error")]_vars

\* A BAD_REQUEST failure whose own message is on display.
C18_Witness ==
    /\ setLocationMutation.last # None
    /\ setLocationMutation.last[1].error
         = Some([code |-> Some("BAD_REQUEST"), message |-> "invalid_location"])
    /\ toast = Toast(Message("invalid_location"), "error")

\* C19: the step that handles a failed mark-no-show or edit-location puts up
\* an error notification and leaves the location dialog's flag and the
\* booking selected for actions as they were; no call of saveLocation ends
\* by throwing, and the one whose mutation failed returns.
C19_FailureIsNotifiedNotThrown ==
    [][/\ saveLocationEnded' # "threw"
       /\ (\/ NoShowAnswered /\ noShowMutation'.last[1].status = "error"
           \/ LocationAnswered /\ setLocationMutation'.last[1].status = "error")
            => /\ toast' # None
               /\ toast'[1].type = "error"
               /\ dialogs'["isOpenSetLocationDialog"] = dialogs["isOpenSetLocationDialog"]
               /\ selectedBookingForActions' = selectedBookingForActions
       /\ (LocationAnswered /\ setLocationMutation'.last[1].status = "error")
            => saveLocationEnded' = "returned"]_vars

\* An edit-location failed: its notification is up, saveLocation has
\* returned and the dialog is still open on the booking.
C19_Witness ==
    /\ setLocationMutation.last # None
    /\ setLocationMutation.last[1].status = "error"
    /\ toast # None
    /\ toast[1].type = "error"
    /\ saveLocationEnded = "returned"
    /\ dialogs["isOpenSetLocationDialog"]
    /\ selectedBookingForActions # None

====
